---- MODULE Spec2Model ----
(***************************************************************************)
(* A model of the MapD dialect of the ibis expression compiler:            *)
(*   ibis/mapd/compiler.py  - to_sql, MapDSelect, MapDTableSetFormatter    *)
(*   ibis/mapd/client.py    - type discovery, pymapd_param, _execute       *)
(*   ibis/expr/tests/test_string.py - the string-operation tests           *)
(* Each component has its own specification over the shared variables; the *)
(* variables of the other components stay at their idle values.            *)
(***************************************************************************)
EXTENDS Integers, Sequences, FiniteSets, TLC

VARIABLES
    expr,         \* the table expression handed to to_sql (a join tree)
    lastContext,  \* the query context of the most recent compilation
    sqls,         \* the outcomes of the to_sql calls made on expr, in order
    limit,        \* MapDSelect.limit: no limit, or {n, offset}
    limitClause,  \* what format_limit returned for it
    field,        \* a backend field descriptor
    discovered,   \* the outcome of _discover_type(field)
    param,        \* the typed placeholder of a bind request
    value,        \* the runtime value supplied for it
    call,         \* the arguments of the pymapd_param call in progress
    dispatches,   \* the number of rules the dispatcher has invoked for it
    bound,        \* the outcome of the bind request
    pc,           \* where the execution call stands
    entry,        \* the method called: _execute or run_sync_query
    queryParams,  \* its query_parameters, (placeholder type, value) pairs
    queryBound,   \* query.query_parameters, or the exception binding raised
    submitted,    \* how often the call has submitted the query
    jobState,     \* the state of query.job as the client last saw it
    backendState, \* the state of the job on the backend
    polled,       \* whether the call has reloaded the job
    strExpr,      \* the string expression built so far
    strCall,      \* the method call that built it
    group_by,     \* the group-by list of the Select
    having,       \* the having list of the Select
    groupByClause \* what format_group_by returned for them

vars == <<expr, lastContext, sqls, limit, limitClause, field, discovered,
          param, value, call, dispatches, bound,
          pc, entry, queryParams, queryBound, submitted, jobState,
          backendState, polled, strExpr, strCall,
          group_by, having, groupByClause>>

compileVars == <<expr, lastContext, sqls>>
selectVars == <<limit, limitClause>>
discoverVars == <<field, discovered>>
bindVars == <<param, value, call, dispatches, bound>>
execVars == <<pc, entry, queryParams, queryBound, submitted, jobState,
              backendState, polled>>
stringVars == <<strExpr, strCall>>
groupVars == <<group_by, having, groupByClause>>

None == "None"

(***************************************************************************)
(* Python values, each tagged with its class.                              *)
(***************************************************************************)
PyNone == [cls |-> "NoneType"]
PyInt(i) == [cls |-> "int", int |-> i]
PyStr(s) == [cls |-> "str", str |-> s]
PyBool(b) == [cls |-> "bool", bool |-> b]
PyFloat(r) == [cls |-> "float", float |-> r]
PyDate(o) == [cls |-> "date", day |-> o]
PyDatetime(o, s, tz) ==
    [cls |-> "datetime", day |-> o, second |-> s, tzinfo |-> tz]
PyList(items) == [cls |-> "list", items |-> items]
PyDict(keys, values) == [cls |-> "dict", keys |-> keys, values |-> values]
PyOrderedDict(keys, values) ==
    [cls |-> "OrderedDict", keys |-> keys, values |-> values]

\* tzinfo of a datetime: none, or a fixed offset from UTC in seconds
Naive == [aware |-> FALSE]
Offset(seconds) == [aware |-> TRUE, utcoffset |-> seconds]
UTC == Offset(0)

\* class -> base class, for the classes that have one below object
Bases ==
    [bool |-> "int", datetime |-> "date", Timestamp |-> "datetime",
     OrderedDict |-> "dict", ArrayScalar |-> "ArrayValue"]

RECURSIVE issubclass(_, _)
issubclass(c, base) ==
    \/ c = base
    \/ base = "object"
    \/ (c \in DOMAIN Bases /\ issubclass(Bases[c], base))

\* a result that has not been computed yet
Pending == [pending |-> TRUE]

(***************************************************************************)
(* Bounds of the model.                                                    *)
(***************************************************************************)
MaxJoins == 2       \* join steps in an expression
MaxCompiles == 2    \* to_sql calls on one expression
MaxN == 9           \* row counts 0..MaxN of a limit
MaxOffset == 10     \* offsets -1..MaxOffset of a limit
MaxDepth == 1       \* nesting depth of RECORD field descriptors
MaxParams == 2      \* query parameters of one execution
MaxStringOps == 2   \* string methods applied one on another
MaxChars == 2       \* start, length and nchars arguments 0..MaxChars
MaxGroups == 2      \* expressions in the group-by list of a Select
MaxHaving == 2      \* predicates in the having list of a Select

(***************************************************************************)
(* Expression IR: tables, column equalities / comparisons, joins.          *)
(***************************************************************************)
RightNames == {"u", "v"}

Table(name) == [kind |-> "table", name |-> name]

Pred(o, l, r) == [op |-> o, left |-> l, right |-> r]

\* The predicate lists a caller passes to join(): none, one, several, in
\* both orders, with a non-equality or a name mismatch at either position.
PredLists ==
    { <<>>,
      <<Pred("Equals", "a", "a")>>,
      <<Pred("Equals", "a", "a"), Pred("Equals", "b", "b")>>,
      <<Pred("Equals", "b", "b"), Pred("Equals", "a", "a")>>,
      <<Pred("Equals", "a", "b")>>,
      <<Pred("Less", "a", "a")>>,
      <<Pred("Equals", "b", "b"), Pred("Less", "a", "a")>>,
      <<Pred("Equals", "a", "a"), Pred("Equals", "b", "a")>> }

JoinTypes == {"InnerJoin", "LeftJoin"}

JoinOp(jt, l, r, preds) ==
    [kind |-> "join", jtype |-> jt, left |-> l, right |-> r,
     predicates |-> preds]

IsJoin(op) == op.kind = "join"

RECURSIVE NumJoins(_)
NumJoins(op) == IF IsJoin(op) THEN 1 + NumJoins(op.left) ELSE 0

(***************************************************************************)
(* Outcomes: a value, or the exception that ended the call.                *)
(***************************************************************************)
Ok(v) == [ok |-> TRUE, value |-> v]
Raise(e, m) == [ok |-> FALSE, error |-> e, msg |-> m]

(***************************************************************************)
(* Query context: the alias table of one compilation.                      *)
(***************************************************************************)
make_context == [always_alias |-> FALSE, refs |-> <<>>]

RECURSIVE IndexOf(_, _, _)
IndexOf(s, x, i) ==
    IF i > Len(s) THEN 0
    ELSE IF s[i] = x THEN i ELSE IndexOf(s, x, i + 1)

\* first call assigns the next unused alias, later calls return the same one
make_ref(ctx, name) ==
    IF IndexOf(ctx.refs, name, 1) > 0 THEN ctx
    ELSE [ctx EXCEPT !.refs = Append(@, name)]

get_ref(ctx, name) == "t" \o ToString(IndexOf(ctx.refs, name, 1) - 1)

need_aliases(ctx) == ctx.always_alias \/ Len(ctx.refs) > 1

RECURSIVE TableRefs(_)
TableRefs(op) ==
    IF IsJoin(op) THEN TableRefs(op.left) \o TableRefs(op.right)
    ELSE <<op.name>>

RECURSIVE MakeRefs(_, _, _)
MakeRefs(ctx, names, i) ==
    IF i > Len(names) THEN ctx
    ELSE MakeRefs(make_ref(ctx, names[i]), names, i + 1)

(***************************************************************************)
(* MapDTableSetFormatter                                                   *)
(***************************************************************************)
IndentUnit == "  "

RECURSIVE Spaces(_)
Spaces(levels) == IF levels = 0 THEN "" ELSE IndentUnit \o Spaces(levels - 1)

indent(text, levels) == Spaces(levels) \o text

RECURSIVE JoinStrings(_, _, _)
JoinStrings(sep, parts, i) ==
    IF i > Len(parts) THEN ""
    ELSE IF i = Len(parts) THEN parts[i]
    ELSE parts[i] \o sep \o JoinStrings(sep, parts, i + 1)

_join_names == [InnerJoin |-> "JOIN", LeftJoin |-> "LEFT JOIN"]

_quote_identifier(name) == name

_format_table(ctx, op) ==
    IF need_aliases(ctx)
    THEN _quote_identifier(op.name) \o " " \o get_ref(ctx, op.name)
    ELSE _quote_identifier(op.name)

RECURSIVE ValidateFrom(_, _)
ValidateFrom(predicates, i) ==
    IF i > Len(predicates) THEN Ok(None)
    ELSE IF predicates[i].op # "Equals"
    THEN Raise("TranslationError",
               "Non-equality join predicates are not supported")
    ELSE IF predicates[i].left # predicates[i].right
    THEN Raise("TranslationError",
               "Joining on different column names is not supported")
    ELSE ValidateFrom(predicates, i + 1)

NoNameCheck_validate(predicates) ==
    IF \E i \in 1..Len(predicates) : predicates[i].op # "Equals"
    THEN Raise("TranslationError",
               "Non-equality join predicates are not supported")
    ELSE Ok(None)

_validate_join_predicates(predicates) == ValidateFrom(predicates, 1)

_format_predicate(predicate) == predicate.left

\* The formatter's three lists, or the exception that ended the walk.
NewFormatter ==
    [ok |-> TRUE, join_tables |-> <<>>, join_types |-> <<>>,
     join_predicates |-> <<>>]

RECURSIVE _walk_join_tree(_, _, _)
_walk_join_tree(ctx, fmt, op) ==
    LET checked == _validate_join_predicates(op.predicates)
        jname == _join_names[op.jtype]
    IN  IF ~checked.ok THEN checked
        ELSE IF IsJoin(op.left)
        THEN LET walked == _walk_join_tree(ctx, fmt, op.left)
             IN  IF ~walked.ok THEN walked
                 ELSE [walked EXCEPT
                         !.join_tables = Append(@, _format_table(ctx, op.right)),
                         !.join_types = Append(@, jname),
                         !.join_predicates = Append(@, op.predicates)]
        ELSE [fmt EXCEPT
                !.join_tables = @ \o <<_format_table(ctx, op.left),
                                       _format_table(ctx, op.right)>>,
                !.join_types = Append(@, jname),
                !.join_predicates = Append(@, op.predicates)]

FormatPreds(preds) ==
    JoinStrings(", ", [i \in 1..Len(preds) |-> _format_predicate(preds[i])], 1)

RECURSIVE WriteSteps(_, _)
WriteSteps(fmt, i) ==
    IF i > Len(fmt.join_types) \/ i + 1 > Len(fmt.join_tables)
       \/ i > Len(fmt.join_predicates)
    THEN ""
    ELSE "\n"
         \o indent(fmt.join_types[i] \o " " \o fmt.join_tables[i + 1], 1)
         \o (IF Len(fmt.join_predicates[i]) > 0
             THEN "\n" \o indent("USING " \o FormatPreds(fmt.join_predicates[i]), 2)
             ELSE "")
         \o WriteSteps(fmt, i + 1)

get_result(ctx, op) ==
    LET fmt == IF IsJoin(op) THEN _walk_join_tree(ctx, NewFormatter, op)
               ELSE [NewFormatter EXCEPT
                       !.join_tables = Append(@, _format_table(ctx, op))]
    IN  IF ~fmt.ok THEN fmt
        ELSE Ok(fmt.join_tables[1] \o WriteSteps(fmt, 1))

(***************************************************************************)
(* to_sql                                                                  *)
(***************************************************************************)
\* Select.compile: the SELECT built for a bare table set.
compile(ctx, op) ==
    LET from == get_result(ctx, op)
    IN  IF ~from.ok THEN from ELSE Ok("SELECT *\nFROM " \o from.value)

\* build_ast: the builder registers every table of the table set with the
\* context before the Select is formatted.
build_ast(op, context) == MakeRefs(context, TableRefs(op), 1)

StaleContext(context, previous) ==
    IF context = None THEN previous ELSE context

ContextFor(context, previous) ==
    IF context = None THEN make_context ELSE context

\* Expressions a client compiles between two compilations of expr.
OtherExprs ==
    { Table("v"),
      JoinOp("InnerJoin", Table("v"), Table("u"), <<Pred("Equals", "a", "a")>>) }

InitCompile ==
    /\ expr = Table("t")
    /\ lastContext = make_context
    /\ sqls = <<>>

\* expr.join(right, predicates): a new join node over the expression so far
Join ==
    /\ sqls = <<>>
    /\ NumJoins(expr) < MaxJoins
    /\ \E jt \in JoinTypes, r \in RightNames, preds \in PredLists :
         expr' = JoinOp(jt, expr, Table(r), preds)
    /\ UNCHANGED <<lastContext, sqls>>
    /\ UNCHANGED <<selectVars, discoverVars, bindVars, execVars, stringVars,
                   groupVars>>

\* to_sql(expr): context=None, so a context is made for this call
ToSql ==
    /\ Len(sqls) < MaxCompiles
    /\ LET context == build_ast(expr, ContextFor(None, lastContext))
       IN  /\ lastContext' = context
           /\ sqls' = Append(sqls, compile(context, expr))
    /\ UNCHANGED expr
    /\ UNCHANGED <<selectVars, discoverVars, bindVars, execVars, stringVars,
                   groupVars>>

\* to_sql(other): a compilation of an unrelated expression
ToSqlOther ==
    /\ \E other \in OtherExprs :
         lastContext' = build_ast(other, ContextFor(None, lastContext))
    /\ UNCHANGED <<expr, sqls>>
    /\ UNCHANGED <<selectVars, discoverVars, bindVars, execVars, stringVars,
                   groupVars>>

(***************************************************************************)
(* MapDSelect.format_limit                                                 *)
(***************************************************************************)
NoLimit == PyNone

Limit(n, offset) == [n |-> n, offset |-> offset]

Offsets == {PyNone} \cup {PyInt(k) : k \in -1..MaxOffset}

KeepZeroOffset_format_limit(lim) ==
    IF lim = NoLimit THEN PyNone
    ELSE PyStr("LIMIT " \o ToString(lim.n)
               \o (IF lim.offset # PyNone
                   THEN ", " \o ToString(lim.offset.int) ELSE ""))

format_limit(lim) ==
    IF lim = NoLimit THEN PyNone
    ELSE PyStr("LIMIT " \o ToString(lim.n)
               \o (IF lim.offset # PyNone /\ lim.offset # PyInt(0)
                   THEN ", " \o ToString(lim.offset.int) ELSE ""))

InitSelect ==
    /\ limit = NoLimit
    /\ limitClause = Pending

\* expr.limit(n, offset): the builder records the limit of the Select
SetLimit ==
    /\ \E n \in 0..MaxN, offset \in Offsets : limit' = Limit(n, offset)
    /\ limitClause' = Pending
    /\ UNCHANGED <<compileVars, discoverVars, bindVars, execVars, stringVars,
                   groupVars>>

FormatLimit ==
    /\ limitClause' = format_limit(limit)
    /\ UNCHANGED limit
    /\ UNCHANGED <<compileVars, discoverVars, bindVars, execVars, stringVars,
                   groupVars>>

(***************************************************************************)
(* Type discovery from backend field descriptors                           *)
(***************************************************************************)
IbisType(name) == [kind |-> name]
Struct(names, types) == [kind |-> "struct", names |-> names, types |-> types]
Array(value_type) == [kind |-> "array", value_type |-> value_type]

_DTYPE_TO_IBIS_TYPE ==
    [INT64 |-> IbisType("int64"),
     FLOAT64 |-> IbisType("double"),
     BOOL |-> IbisType("boolean"),
     STRING |-> IbisType("string"),
     DATE |-> IbisType("date"),
     DATETIME |-> IbisType("timestamp"),
     TIME |-> IbisType("time"),
     TIMESTAMP |-> IbisType("timestamp"),
     BYTES |-> IbisType("binary")]

_LEGACY_TO_STANDARD ==
    [INTEGER |-> "INT64", FLOAT |-> "FLOAT64", BOOLEAN |-> "BOOL"]

\* dict.get(key, default)
Get(dict, key, default) == IF key \in DOMAIN dict THEN dict[key] ELSE default

SchemaField(name, field_type, mode, fields) ==
    [name |-> name, field_type |-> field_type, mode |-> mode,
     fields |-> fields]

RECURSIVE DiscoverAll(_, _)
RECURSIVE _discover_type(_)

\* [_discover_type(el) for el in fields], ended by the first exception
DiscoverAll(fields, i) ==
    IF i > Len(fields) THEN Ok(<<>>)
    ELSE LET head == _discover_type(fields[i])
         IN  IF ~head.ok THEN head
             ELSE LET rest == DiscoverAll(fields, i + 1)
                  IN  IF ~rest.ok THEN rest
                      ELSE Ok(<<head.value>> \o rest.value)

_discover_type(f) ==
    LET typ == f.field_type
        inner ==
            IF typ = "RECORD"
            THEN IF Len(f.fields) = 0 THEN Raise("AssertionError", "")
                 ELSE LET ibis_types == DiscoverAll(f.fields, 1)
                      IN  IF ~ibis_types.ok THEN ibis_types
                          ELSE Ok(Struct([i \in 1..Len(f.fields) |-> f.fields[i].name],
                                         ibis_types.value))
            ELSE LET standard == Get(_LEGACY_TO_STANDARD, typ, typ)
                 IN  Ok(Get(_DTYPE_TO_IBIS_TYPE, standard, PyStr(standard)))
    IN  IF ~inner.ok THEN inner
        ELSE IF f.mode = "REPEATED" THEN Ok(Array(inner.value))
        ELSE inner

\* The type tags of the descriptors tried: standard, legacy, and two that
\* the tables do not know.
FieldTags == {"INT64", "TIMESTAMP", "INTEGER", "GEOGRAPHY", "NUMERIC"}
Modes == {"NULLABLE", "REPEATED"}

LeafFields(name) ==
    {SchemaField(name, t, m, <<>>) : t \in FieldTags \cup {"RECORD"}, m \in Modes}

RECURSIVE FieldDepth(_)
RECURSIVE MaxFieldDepth(_, _)
MaxFieldDepth(fields, i) ==
    IF i > Len(fields) THEN 0
    ELSE LET d == FieldDepth(fields[i])
             r == MaxFieldDepth(fields, i + 1)
         IN  IF d > r THEN d ELSE r

FieldDepth(f) ==
    IF f.field_type = "RECORD" /\ Len(f.fields) > 0
    THEN 1 + MaxFieldDepth(f.fields, 1) ELSE 0

InitDiscover ==
    /\ field = SchemaField("x", "INT64", "NULLABLE", <<>>)
    /\ discovered = Pending

\* the backend reports a field of the table's schema
Describe ==
    /\ field' \in LeafFields("x")
    /\ discovered' = Pending
    /\ UNCHANGED <<compileVars, selectVars, bindVars, execVars, stringVars,
                   groupVars>>

\* the backend reports the field as a member of a RECORD field
Nest ==
    /\ FieldDepth(field) < MaxDepth
    /\ LET inner == [field EXCEPT !.name = "y"]
       IN  \E m \in Modes, sibling \in LeafFields("z") :
             \E fields \in {<<inner>>, <<inner, sibling>>, <<sibling, inner>>} :
                field' = SchemaField("x", "RECORD", m, fields)
    /\ discovered' = Pending
    /\ UNCHANGED <<compileVars, selectVars, bindVars, execVars, stringVars,
                   groupVars>>

Discover ==
    /\ discovered' = _discover_type(field)
    /\ UNCHANGED field
    /\ UNCHANGED <<compileVars, selectVars, bindVars, execVars, stringVars,
                   groupVars>>

(***************************************************************************)
(* Parameter binding: pymapd_param                                         *)
(***************************************************************************)
_IBIS_TYPE_TO_DTYPE ==
    [string |-> "STRING", int64 |-> "INT64", double |-> "FLOAT64",
     boolean |-> "BOOL", timestamp |-> "TIMESTAMP", date |-> "DATE"]

\* a placeholder expression: its expression class, its type and its name
Param(cls, type, name) == [cls |-> cls, type |-> type, name |-> name]

\* the scalar expression class of a type
ScalarClass(type) ==
    CASE type.kind = "string" -> "StringScalar"
      [] type.kind \in {"int8", "int16", "int32", "int64"} -> "IntegerScalar"
      [] type.kind \in {"float", "double"} -> "FloatingScalar"
      [] type.kind = "boolean" -> "BooleanScalar"
      [] type.kind = "timestamp" -> "TimestampScalar"
      [] type.kind = "date" -> "DateScalar"
      [] type.kind = "time" -> "TimeScalar"
      [] type.kind = "binary" -> "BinaryScalar"
      [] type.kind = "struct" -> "StructScalar"
      [] type.kind = "array" -> "ArrayScalar"

ToExpr(type, name) == Param(ScalarClass(type), type, name)

\* param[k] of a struct placeholder
GetItem(p, k) ==
    LET i == IndexOf(p.type.names, k, 1)
    IN  IF i = 0 THEN Raise("KeyError", k)
        ELSE Ok(ToExpr(p.type.types[i], k))

\* str(type) of a value type
TypeName(type) == type.kind

ScalarQueryParameter(name, type_, v) ==
    [parameter |-> "scalar", name |-> name, type_ |-> type_, value |-> v]
ArrayQueryParameter(name, array_type, values) ==
    [parameter |-> "array", name |-> name, array_type |-> array_type,
     values |-> values]
StructQueryParameter(name, sub_params) ==
    [parameter |-> "struct", name |-> name, sub_params |-> sub_params]

\* The strings that denote a timestamp, as pandas parses them: the wall
\* clock date (days since 1970-01-01), second of the day and UTC offset.
TimestampStrings ==
    ("2018-01-02" :> [day |-> 17533, second |-> 0, tzinfo |-> Naive])
    @@ ("2018-01-02 23:30:00" :>
            [day |-> 17533, second |-> 84600, tzinfo |-> Naive])
    @@ ("2018-01-02T23:30:00-05:00" :>
            [day |-> 17533, second |-> 84600, tzinfo |-> Offset(-18000)])
    @@ ("2018-01-02T01:00:00+05:00" :>
            [day |-> 17533, second |-> 3600, tzinfo |-> Offset(18000)])

\* the same instant on the UTC wall clock
AsTimezoneUTC(t) ==
    LET total == t.second - t.tzinfo.utcoffset
    IN  IF total < 0
        THEN [day |-> t.day - 1, second |-> total + 86400, tzinfo |-> UTC]
        ELSE IF total >= 86400
        THEN [day |-> t.day + 1, second |-> total - 86400, tzinfo |-> UTC]
        ELSE [day |-> t.day, second |-> total, tzinfo |-> UTC]

\* pd.Timestamp(value, tz=tz): parse or take the wall clock of value; with
\* tz, a naive wall clock is taken to be in tz, an aware one is converted
PdTimestamp(v, tz) ==
    LET wall ==
            CASE v.cls = "str" ->
                    IF v.str \in DOMAIN TimestampStrings
                    THEN Ok(TimestampStrings[v.str])
                    ELSE Raise("ValueError", v.str)
              [] v.cls = "date" ->
                    Ok([day |-> v.day, second |-> 0, tzinfo |-> Naive])
              [] v.cls \in {"datetime", "Timestamp"} ->
                    Ok([day |-> v.day, second |-> v.second,
                        tzinfo |-> v.tzinfo])
    IN  IF ~wall.ok THEN wall
        ELSE LET w == wall.value
                 z == IF tz = None THEN w
                      ELSE IF w.tzinfo.aware THEN AsTimezoneUTC(w)
                      ELSE [w EXCEPT !.tzinfo = UTC]
             IN  Ok([cls |-> "Timestamp", day |-> z.day,
                     second |-> z.second, tzinfo |-> z.tzinfo])

to_pydatetime(ts) == PyDatetime(ts.day, ts.second, ts.tzinfo)

date(dtm) == PyDate(dtm.day)

\* The signatures registered with the dispatcher, one per decorator and
\* member of a tuple of value types.
Rule(p, v, f) == [param |-> p, value |-> v, func |-> f]

Registry ==
    { Rule("StructScalar", "OrderedDict", "pymapd_param_struct"),
      Rule("ArrayValue", "list", "pymapd_param_array"),
      Rule("TimestampScalar", "str", "pymapd_param_timestamp"),
      Rule("TimestampScalar", "datetime", "pymapd_param_timestamp"),
      Rule("TimestampScalar", "date", "pymapd_param_timestamp"),
      Rule("StringScalar", "str", "pymapd_param_string"),
      Rule("IntegerScalar", "int", "pymapd_param_integer"),
      Rule("FloatingScalar", "float", "pymapd_param_double"),
      Rule("BooleanScalar", "bool", "pymapd_param_boolean"),
      Rule("DateScalar", "str", "pymapd_param_date_string"),
      Rule("DateScalar", "datetime", "pymapd_param_date_datetime"),
      Rule("DateScalar", "date", "pymapd_param_date") }

\* Dispatcher.dispatch: the most specific registered signature that the
\* classes of the two arguments are subclasses of, if there is one
dispatch(pcls, vcls) ==
    LET matches == {r \in Registry :
                        issubclass(pcls, r.param) /\ issubclass(vcls, r.value)}
    IN  IF matches = {} THEN None
        ELSE (CHOOSE m \in matches :
                \A o \in matches :
                    issubclass(m.param, o.param) /\ issubclass(m.value, o.value)).func

\* a rule that ends by calling pymapd_param again
Again(p, v) == [ok |-> TRUE, again |-> TRUE, param |-> p, value |-> v]
IsAgain(r) == "again" \in DOMAIN r

RECURSIVE pymapd_param(_, _)
RECURSIVE BindFields(_, _, _)
RECURSIVE Invoke(_, _)

pymapd_param_struct(p, v) ==
    LET field_params == BindFields(p, v, 1)
    IN  IF ~field_params.ok THEN field_params
        ELSE Ok(StructQueryParameter(p.name, field_params.value))

pymapd_param_array(p, v) ==
    IF TypeName(p.type.value_type) \in DOMAIN _IBIS_TYPE_TO_DTYPE
    THEN Ok(ArrayQueryParameter(
                p.name, _IBIS_TYPE_TO_DTYPE[TypeName(p.type.value_type)],
                v.items))
    ELSE Raise("UnsupportedBackendType", TypeName(p.type.value_type))

pymapd_param_timestamp(p, v) ==
    LET ts == PdTimestamp(v, "UTC")
    IN  IF ~ts.ok THEN ts
        ELSE Ok(ScalarQueryParameter(p.name, "TIMESTAMP",
                                     to_pydatetime(ts.value)))

pymapd_param_string(p, v) == Ok(ScalarQueryParameter(p.name, "STRING", v))

pymapd_param_integer(p, v) == Ok(ScalarQueryParameter(p.name, "INT64", v))

pymapd_param_double(p, v) == Ok(ScalarQueryParameter(p.name, "FLOAT64", v))

pymapd_param_boolean(p, v) == Ok(ScalarQueryParameter(p.name, "BOOL", v))

pymapd_param_date_string(p, v) ==
    LET ts == PdTimestamp(v, None)
    IN  IF ~ts.ok THEN ts
        ELSE Again(p, date(to_pydatetime(ts.value)))

pymapd_param_date_datetime(p, v) == Again(p, date(v))

pymapd_param_date(p, v) == Ok(ScalarQueryParameter(p.name, "DATE", v))

\* one call of the dispatcher: resolve the rule and run its body
Invoke(p, v) ==
    LET func == dispatch(p.cls, v.cls)
    IN  CASE func = None ->
                Raise("NotImplementedError",
                      "Could not find signature for pymapd_param")
          [] func = "pymapd_param_struct" -> pymapd_param_struct(p, v)
          [] func = "pymapd_param_array" -> pymapd_param_array(p, v)
          [] func = "pymapd_param_timestamp" -> pymapd_param_timestamp(p, v)
          [] func = "pymapd_param_string" -> pymapd_param_string(p, v)
          [] func = "pymapd_param_integer" -> pymapd_param_integer(p, v)
          [] func = "pymapd_param_double" -> pymapd_param_double(p, v)
          [] func = "pymapd_param_boolean" -> pymapd_param_boolean(p, v)
          [] func = "pymapd_param_date_string" -> pymapd_param_date_string(p, v)
          [] func = "pymapd_param_date_datetime" ->
                pymapd_param_date_datetime(p, v)
          [] func = "pymapd_param_date" -> pymapd_param_date(p, v)

\* a whole call, the calls its rules make included
pymapd_param(p, v) ==
    LET r == Invoke(p, v)
    IN  IF r.ok /\ IsAgain(r) THEN pymapd_param(r.param, r.value) ELSE r

\* [pymapd_param(param[k], v) for k, v in value.items()]
BindFields(p, v, i) ==
    IF i > Len(v.keys) THEN Ok(<<>>)
    ELSE LET item == GetItem(p, v.keys[i])
         IN  IF ~item.ok THEN item
             ELSE LET head == pymapd_param(item.value, v.values[i])
                  IN  IF ~head.ok THEN head
                      ELSE LET rest == BindFields(p, v, i + 1)
                           IN  IF ~rest.ok THEN rest
                               ELSE Ok(<<head.value>> \o rest.value)

\* The placeholders and values of the bind requests tried.
PointType == Struct(<<"x", "d">>, <<IbisType("int64"), IbisType("date")>>)

ParamTypes ==
    { IbisType("string"), IbisType("int64"), IbisType("int32"),
      IbisType("double"), IbisType("boolean"), IbisType("timestamp"),
      IbisType("date"), IbisType("time"),
      Array(IbisType("int64")), Array(IbisType("int32")),
      PointType }

Params == {ToExpr(t, "p") : t \in ParamTypes}

Values ==
    { PyNone,
      PyStr("abc"), PyStr("2018-01-02"), PyStr("2018-01-02 23:30:00"),
      PyStr("2018-01-02T23:30:00-05:00"), PyStr("2018-01-02T01:00:00+05:00"),
      PyInt(7), PyBool(TRUE), PyFloat("1.5"),
      PyDate(17533), PyDatetime(17533, 84600, Naive),
      PyList(<<PyInt(1), PyInt(2)>>),
      PyDict(<<"x", "d">>, <<PyInt(1), PyDate(17533)>>),
      PyOrderedDict(<<"x", "d">>, <<PyInt(1), PyDate(17533)>>),
      PyOrderedDict(<<"d", "x">>,
                    <<PyStr("2018-01-02T23:30:00-05:00"), PyBool(FALSE)>>),
      PyOrderedDict(<<"x", "d">>, <<PyFloat("1.5"), PyDate(17533)>>),
      PyOrderedDict(<<"x", "y">>, <<PyInt(1), PyInt(2)>>) }

Idle == [idle |-> TRUE]

InitBind ==
    /\ param = ToExpr(IbisType("string"), "p")
    /\ value = PyNone
    /\ call = Idle
    /\ dispatches = 0
    /\ bound = Pending

\* a caller asks for the bound parameter of a (placeholder, value) pair
Request ==
    /\ call = Idle
    /\ \E p \in Params, v \in Values :
         /\ param' = p
         /\ value' = v
         /\ call' = [param |-> p, value |-> v]
    /\ dispatches' = 0
    /\ bound' = Pending
    /\ UNCHANGED <<compileVars, selectVars, discoverVars, execVars, stringVars,
                   groupVars>>

\* the dispatcher invokes the rule for the call in progress, which returns,
\* raises, or calls pymapd_param again
Dispatch ==
    /\ call # Idle
    /\ dispatches' = dispatches + 1
    /\ LET r == Invoke(call.param, call.value)
       IN  IF r.ok /\ IsAgain(r)
           THEN /\ call' = [param |-> r.param, value |-> r.value]
                /\ UNCHANGED bound
           ELSE /\ call' = Idle
                /\ bound' = r
    /\ UNCHANGED <<param, value>>
    /\ UNCHANGED <<compileVars, selectVars, discoverVars, execVars, stringVars,
                   groupVars>>

(***************************************************************************)
(* Execution: MapDClient._execute and MapDAPIProxy.run_sync_query          *)
(***************************************************************************)
\* The (placeholder type, value) pairs of the query parameters tried.
ParamPairs ==
    { <<IbisType("string"), PyStr("abc")>>,
      <<IbisType("int64"), PyInt(7)>>,
      <<IbisType("date"), PyStr("2018-01-02")>>,
      <<IbisType("timestamp"), PyDate(17533)>>,
      <<IbisType("double"), PyInt(7)>> }

ParamLists == UNION {[1..n -> ParamPairs] : n \in 0..MaxParams}

\* [pymapd_param(param.to_expr(), value) for param, value in items]
RECURSIVE BindAll(_, _)
BindAll(items, i) ==
    IF i > Len(items) THEN Ok(<<>>)
    ELSE LET head == pymapd_param(ToExpr(items[i][1], "p" \o ToString(i)),
                                  items[i][2])
         IN  IF ~head.ok THEN head
             ELSE LET rest == BindAll(items, i + 1)
                  IN  IF ~rest.ok THEN rest
                      ELSE Ok(<<head.value>> \o rest.value)

NeverWaits_job_done(state) == TRUE

\* query.job.done()
job_done(state) == state = "DONE"

InitExec ==
    /\ pc = "idle"
    /\ entry = None
    /\ queryParams = <<>>
    /\ queryBound = Pending
    /\ submitted = 0
    /\ jobState = None
    /\ backendState = None
    /\ polled = FALSE

\* _execute(stmt, query_parameters=...): the query object is made and the
\* parameters are bound, all of them or the call ends with the exception
Execute ==
    /\ pc \in {"idle", "returned", "raised"}
    /\ \E items \in ParamLists :
         /\ queryParams' = items
         /\ queryBound' = BindAll(items, 1)
         /\ pc' = IF BindAll(items, 1).ok THEN "run" ELSE "raised"
    /\ entry' = "_execute"
    /\ submitted' = 0
    /\ jobState' = None
    /\ backendState' = None
    /\ polled' = FALSE
    /\ UNCHANGED <<compileVars, selectVars, discoverVars, bindVars, stringVars,
                   groupVars>>

\* MapDAPIProxy.run_sync_query(stmt): the query object is made
RunSyncQuery ==
    /\ pc \in {"idle", "returned", "raised"}
    /\ entry' = "run_sync_query"
    /\ queryParams' = <<>>
    /\ queryBound' = Ok(<<>>)
    /\ pc' = "run"
    /\ submitted' = 0
    /\ jobState' = None
    /\ backendState' = None
    /\ polled' = FALSE
    /\ UNCHANGED <<compileVars, selectVars, discoverVars, bindVars, stringVars,
                   groupVars>>

\* query.run(): the query is submitted; the answer carries the job's state,
\* which may be done already
Run ==
    /\ pc = "run"
    /\ submitted' = submitted + 1
    /\ \E st \in {"RUNNING", "DONE"} :
         /\ backendState' = st
         /\ jobState' = st
    /\ pc' = "test"
    /\ UNCHANGED <<entry, queryParams, queryBound, polled>>
    /\ UNCHANGED <<compileVars, selectVars, discoverVars, bindVars, stringVars,
                   groupVars>>

\* while not query.job.done(): ... ; return the cursor (the query)
Test ==
    /\ pc = "test"
    /\ pc' = IF job_done(jobState) THEN "returned" ELSE "reload"
    /\ UNCHANGED <<entry, queryParams, queryBound, submitted, jobState,
                   backendState, polled, strExpr, strCall>>
    /\ UNCHANGED <<compileVars, selectVars, discoverVars, bindVars, stringVars,
                   groupVars>>

\* query.job.reload()
Reload ==
    /\ pc = "reload"
    /\ jobState' = backendState
    /\ polled' = TRUE
    /\ pc' = "sleep"
    /\ UNCHANGED <<entry, queryParams, queryBound, submitted, backendState>>
    /\ UNCHANGED <<compileVars, selectVars, discoverVars, bindVars, stringVars,
                   groupVars>>

\* time.sleep(0.1)
Sleep ==
    /\ pc = "sleep"
    /\ pc' = "test"
    /\ UNCHANGED <<entry, queryParams, queryBound, submitted, jobState,
                   backendState, polled, strExpr, strCall>>
    /\ UNCHANGED <<compileVars, selectVars, discoverVars, bindVars, stringVars,
                   groupVars>>

\* the backend finishes the job
JobCompletes ==
    /\ backendState = "RUNNING"
    /\ backendState' = "DONE"
    /\ UNCHANGED <<pc, entry, queryParams, queryBound, submitted, jobState,
                   polled>>
    /\ UNCHANGED <<compileVars, selectVars, discoverVars, bindVars, stringVars,
                   groupVars>>

\* the steps of the calling thread inside a call
CallStep == Run \/ Test \/ Reload \/ Sleep

(***************************************************************************)
(* String expressions: the API that test_string.py exercises               *)
(***************************************************************************)
\* table.g, a string column, and literal('FoO'), a string scalar
Column(name) == [op |-> "TableColumn", name |-> name, shape |-> "array"]
Literal(text) == [op |-> "Literal", text |-> text, shape |-> "scalar"]

Lowercase(s) == [op |-> "Lowercase", arg |-> s, shape |-> s.shape]
Uppercase(s) == [op |-> "Uppercase", arg |-> s, shape |-> s.shape]
Substring(s, start, length) ==
    [op |-> "Substring", arg |-> s, start |-> start, length |-> length,
     shape |-> s.shape]
StrRight(s, nchars) ==
    [op |-> "StrRight", arg |-> s, nchars |-> nchars, shape |-> s.shape]

lower(s) == Lowercase(s)
upper(s) == Uppercase(s)
substr(s, start, length) == Substring(s, start, length)

FromOne_left(s, nchars) == substr(s, 1, nchars)

left(s, nchars) == substr(s, 0, nchars)
right(s, nchars) == StrRight(s, nchars)

\* Expr.equals: the same operation over equal arguments
equals(a, b) == a = b

RECURSIVE StringOps(_)
StringOps(s) == IF "arg" \in DOMAIN s THEN 1 + StringOps(s.arg) ELSE 0

\* TestStringOps.test_left_right, on the expression s with n characters
test_left_right(s, n) ==
    /\ equals(left(s, n), substr(s, 0, n))
    /\ right(s, n).op = "StrRight"
    /\ right(s, n).nchars = n

InitString ==
    /\ strExpr = Column("g")
    /\ strCall = [method |-> "table.g"]

\* a test starts from the column or from the literal
StartString ==
    /\ \E root \in {Column("g"), Literal("FoO")} : strExpr' = root
    /\ strCall' = [method |-> "root"]
    /\ UNCHANGED <<compileVars, selectVars, discoverVars, bindVars, execVars,
                   groupVars>>

CallLowerUpper ==
    /\ StringOps(strExpr) < MaxStringOps
    /\ \/ /\ strExpr' = lower(strExpr)
          /\ strCall' = [method |-> "lower", on |-> strExpr]
       \/ /\ strExpr' = upper(strExpr)
          /\ strCall' = [method |-> "upper", on |-> strExpr]
    /\ UNCHANGED <<compileVars, selectVars, discoverVars, bindVars, execVars,
                   groupVars>>

CallSubstr ==
    /\ StringOps(strExpr) < MaxStringOps
    /\ \E start \in 0..MaxChars, length \in 0..MaxChars :
         /\ strExpr' = substr(strExpr, start, length)
         /\ strCall' = [method |-> "substr", on |-> strExpr,
                        start |-> start, length |-> length]
    /\ UNCHANGED <<compileVars, selectVars, discoverVars, bindVars, execVars,
                   groupVars>>

CallLeft ==
    /\ StringOps(strExpr) < MaxStringOps
    /\ \E n \in 0..MaxChars :
         /\ strExpr' = left(strExpr, n)
         /\ strCall' = [method |-> "left", on |-> strExpr, nchars |-> n]
    /\ UNCHANGED <<compileVars, selectVars, discoverVars, bindVars, execVars,
                   groupVars>>

CallRight ==
    /\ StringOps(strExpr) < MaxStringOps
    /\ \E n \in 0..MaxChars :
         /\ strExpr' = right(strExpr, n)
         /\ strCall' = [method |-> "right", on |-> strExpr, nchars |-> n]
    /\ UNCHANGED <<compileVars, selectVars, discoverVars, bindVars, execVars,
                   groupVars>>

(***************************************************************************)
(* MapDSelect.format_group_by                                              *)
(***************************************************************************)
\* an aggregate filter of the having list: a comparison of a reduction of
\* a column with a number
Having(func, column, cmp, n) ==
    [op |-> cmp, func |-> func, column |-> column, right |-> n]

get_name(e) == e.name

\* the translator's text of a having predicate
_translate(e) ==
    e.func \o "(" \o e.column \o ") "
        \o (CASE e.op = "Greater" -> ">" [] e.op = "Less" -> "<"
              [] OTHER -> "=")
        \o " " \o ToString(e.right)

GroupColumns == {Column("a"), Column("b"), Column("c")}

HavingPredicates ==
    {Having("sum", "x", "Greater", 10), Having("count", "y", "Less", 3)}

RECURSIVE ListsOf(_, _)
ListsOf(S, n) ==
    IF n = 0 THEN {<<>>}
    ELSE ListsOf(S, n - 1)
           \cup {Append(l, x) : l \in {m \in ListsOf(S, n - 1) : Len(m) = n - 1},
                                x \in S}

HavingOnly_format_group_by(groups, hav) ==
    LET lines ==
          (IF groups # <<>>
           THEN <<"GROUP BY "
                    \o JoinStrings(", ", [i \in 1..Len(groups) |->
                                              get_name(groups[i])], 1)>>
           ELSE <<>>)
          \o (IF hav # <<>>
              THEN <<"HAVING "
                       \o JoinStrings(" AND ", [i \in 1..Len(hav) |->
                                                   _translate(hav[i])], 1)>>
              ELSE <<>>)
    IN  PyStr(JoinStrings("\n", lines, 1))

format_group_by(groups, hav) ==
    IF groups = <<>> THEN PyNone
    ELSE
      LET lines ==
            (IF groups # <<>>
             THEN <<"GROUP BY "
                      \o JoinStrings(", ", [i \in 1..Len(groups) |->
                                                get_name(groups[i])], 1)>>
             ELSE <<>>)
            \o (IF hav # <<>>
                THEN <<"HAVING "
                         \o JoinStrings(" AND ", [i \in 1..Len(hav) |->
                                                     _translate(hav[i])], 1)>>
                ELSE <<>>)
      IN  PyStr(JoinStrings("\n", lines, 1))

InitGroupBy ==
    /\ group_by = <<>>
    /\ having = <<>>
    /\ groupByClause = Pending

\* the builder fills the group-by and having lists of the Select
SetGroupBy ==
    /\ \E g \in ListsOf(GroupColumns, MaxGroups),
          h \in ListsOf(HavingPredicates, MaxHaving) :
          /\ group_by' = g
          /\ having' = h
    /\ groupByClause' = Pending
    /\ UNCHANGED <<compileVars, selectVars, discoverVars, bindVars, execVars,
                   stringVars>>

FormatGroupBy ==
    /\ groupByClause' = format_group_by(group_by, having)
    /\ UNCHANGED <<group_by, having>>
    /\ UNCHANGED <<compileVars, selectVars, discoverVars, bindVars, execVars,
                   stringVars>>

(***************************************************************************)
(* Specifications                                                          *)
(***************************************************************************)
Init == InitCompile /\ InitSelect /\ InitDiscover /\ InitBind /\ InitExec
        /\ InitString /\ InitGroupBy

NextCompile == Join \/ ToSql \/ ToSqlOther
SpecCompile == Init /\ [][NextCompile]_vars

NextSelect == SetLimit \/ FormatLimit
SpecSelect == Init /\ [][NextSelect]_vars

NextGroupBy == SetGroupBy \/ FormatGroupBy
SpecGroupBy == Init /\ [][NextGroupBy]_vars

NextDiscover == Describe \/ Nest \/ Discover
SpecDiscover == Init /\ [][NextDiscover]_vars

NextBind == Request \/ Dispatch
SpecBind == Init /\ [][NextBind]_vars

\* The calling thread runs on while a call is in progress; nothing is
\* assumed of the backend, and none of a caller making another call.
NextExec == Execute \/ RunSyncQuery \/ Run \/ Test \/ Reload \/ Sleep
            \/ JobCompletes
SpecExec == Init /\ [][NextExec]_vars /\ WF_vars(CallStep)

NextString == StartString \/ CallLowerUpper \/ CallSubstr \/ CallLeft
              \/ CallRight
SpecString == Init /\ [][NextString]_vars

(***************************************************************************)
(* Join compilation (C1, C2) and determinism (C9).                         *)
(***************************************************************************)
RECURSIVE JoinSteps(_)
JoinSteps(op) ==
    IF IsJoin(op) THEN Append(JoinSteps(op.left), op) ELSE <<>>

RECURSIVE AnchorOf(_)
AnchorOf(op) == IF IsJoin(op) THEN AnchorOf(op.left) ELSE op

GoodPredicate(p) == p.op = "Equals" /\ p.left = p.right

AllPredicatesGood(op) ==
    \A i \in 1..Len(JoinSteps(op)) :
        \A k \in 1..Len(JoinSteps(op)[i].predicates) :
            GoodPredicate(JoinSteps(op)[i].predicates[k])

\* a table as it is written in a join: its name and its alias, the aliases
\* numbered by first appearance, anchor first
TableText(root, name) ==
    IF IsJoin(root)
    THEN name \o " t" \o ToString(IndexOf(TableRefs(root), name, 1) - 1)
    ELSE name

ColumnList(preds) ==
    JoinStrings(", ", [k \in 1..Len(preds) |-> preds[k].left], 1)

Keyword(jtype) == IF jtype = "InnerJoin" THEN "JOIN" ELSE "LEFT JOIN"

RECURSIVE StepLines(_, _, _, _)
StepLines(root, i, open, close) ==
    IF i > Len(JoinSteps(root)) THEN ""
    ELSE LET step == JoinSteps(root)[i]
         IN  "\n  " \o Keyword(step.jtype) \o " "
             \o TableText(root, step.right.name)
             \o (IF step.predicates # <<>>
                 THEN "\n    USING " \o open \o ColumnList(step.predicates) \o close
                 ELSE "")
             \o StepLines(root, i + 1, open, close)

TableSetText(root, open, close) ==
    TableText(root, AnchorOf(root).name) \o StepLines(root, 1, open, close)


\* C1: for a join tree of k >= 1 steps over identically named columns the
\* table set is the anchor, then one JOIN / LEFT JOIN line per step in
\* left-first order, each step with predicates followed by USING (<cols>),
\* the column list in parentheses, in predicate order.
C1_UsingInParentheses ==
    \A i \in 1..Len(sqls) :
        (NumJoins(expr) >= 1 /\ AllPredicatesGood(expr))
            => sqls[i] = Ok("SELECT *\nFROM " \o TableSetText(expr, "(", ")"))

\* What get_result writes instead: the column list follows USING bare.
JoinTextAsWritten ==
    \A i \in 1..Len(sqls) :
        AllPredicatesGood(expr)
            => sqls[i] = Ok("SELECT *\nFROM " \o TableSetText(expr, "", ""))

\* C2: for every join type, compilation ends in the join-predicate
\* TranslationError, with no SQL text, whenever some predicate of a join is
\* not an equality or equates differently named columns, and yields SQL text
\* only if every predicate is an equality of identically named columns.
C2_BadPredicateFails ==
    \A i \in 1..Len(sqls) :
        /\ sqls[i].ok <=> AllPredicatesGood(expr)
        /\ ~sqls[i].ok =>
              /\ sqls[i].error = "TranslationError"
              /\ DOMAIN sqls[i] = {"ok", "error", "msg"}

C2_Witness ==
    /\ Len(sqls) >= 1
    /\ ~sqls[1].ok
    /\ IsJoin(expr)
    /\ expr.jtype = "LeftJoin"
    /\ expr.predicates = <<Pred("Equals", "a", "a"), Pred("Equals", "b", "a")>>

Rendered == limitClause # Pending

\* C3: format_limit renders LIMIT <n>, followed by , <offset> exactly when
\* the offset is present and not zero; nothing when no limit is set.
C3_LimitClause ==
    Rendered =>
        /\ limit = NoLimit => limitClause = PyNone
        /\ limit # NoLimit =>
              IF limit.offset \in {PyNone, PyInt(0)}
              THEN limitClause = PyStr("LIMIT " \o ToString(limit.n))
              ELSE limitClause = PyStr("LIMIT " \o ToString(limit.n) \o ", "
                                       \o ToString(limit.offset.int))
        /\ limit = Limit(5, PyNone) => limitClause = PyStr("LIMIT 5")
        /\ limit = Limit(5, PyInt(10)) => limitClause = PyStr("LIMIT 5, 10")
        /\ limit = Limit(5, PyInt(0)) => limitClause = PyStr("LIMIT 5")

C3_Witness ==
    /\ limit = Limit(5, PyInt(0))
    /\ limitClause = PyStr("LIMIT 5")

(***************************************************************************)
(* Type discovery (C4).                                                    *)
(***************************************************************************)
KnownTags ==
    DOMAIN _DTYPE_TO_IBIS_TYPE \cup DOMAIN _LEGACY_TO_STANDARD \cup {"RECORD"}

RECURSIVE HasUnknownTag(_)
HasUnknownTag(f) ==
    \/ f.field_type \notin KnownTags
    \/ \E i \in 1..Len(f.fields) : HasUnknownTag(f.fields[i])

\* C4: discovery never passes an unknown type tag on: a descriptor with a
\* tag that is neither standard, legacy nor RECORD, at any depth, repeated
\* or not, ends in UnsupportedTypeError.
C4_UnknownTagFails ==
    (discovered # Pending /\ HasUnknownTag(field)) =>
        (~discovered.ok /\ discovered.error = "UnsupportedTypeError")

(***************************************************************************)
(* Parameter binding (C5, C6, C7).                                         *)
(***************************************************************************)
IntegerKinds == {"int8", "int16", "int32", "int64"}
FloatingKinds == {"float", "double"}
TemporalShapes == {"str", "date", "datetime"}

\* the (declared Type, value shape) pairs that the binding rules list; a
\* bool is an integer value as well
RuleListed(type, v) ==
    \/ type.kind = "struct" /\ v.cls = "OrderedDict"
    \/ type.kind = "array" /\ v.cls = "list"
    \/ type.kind = "timestamp" /\ v.cls \in TemporalShapes
    \/ type.kind = "date" /\ v.cls \in TemporalShapes
    \/ type.kind = "string" /\ v.cls = "str"
    \/ type.kind \in IntegerKinds /\ v.cls \in {"int", "bool"}
    \/ type.kind \in FloatingKinds /\ v.cls = "float"
    \/ type.kind = "boolean" /\ v.cls = "bool"

Bindings == bound # Pending

BackendTagged == {"string", "int64", "double", "boolean", "timestamp", "date"}

\* the conversions that a listed pair's rule makes all succeed; tagged says
\* whether an array's element type is asked to have a backend tag
RECURSIVE Converts(_, _, _)
Converts(tagged, type, v) ==
    CASE type.kind = "array" ->
            tagged => type.value_type.kind \in BackendTagged
      [] type.kind \in {"timestamp", "date"} /\ v.cls = "str" ->
            v.str \in DOMAIN TimestampStrings
      [] type.kind = "struct" ->
            \A i \in 1..Len(v.keys) :
                \E k \in 1..Len(type.names) :
                    /\ type.names[k] = v.keys[i]
                    /\ RuleListed(type.types[k], v.values[i])
                    /\ Converts(tagged, type.types[k], v.values[i])
      [] OTHER -> TRUE

Convertible(type, v) == Converts(TRUE, type, v)
WellFormed(type, v) == Converts(FALSE, type, v)

\* C5: a pair that no rule lists fails with UnboundParameterError and yields
\* no parameter, and every pair that the rules list binds without error (its
\* strings being timestamps and its struct fields listed pairs themselves).
C5_ListedPairsBind ==
    Bindings =>
        /\ ~RuleListed(param.type, value) =>
              /\ ~bound.ok
              /\ bound.error = "UnboundParameterError"
        /\ (RuleListed(param.type, value) /\ WellFormed(param.type, value)) =>
              bound.ok

\* what the rules do as written: an unlisted pair ends in the dispatcher's
\* NotImplementedError and yields no parameter; a listed pair binds exactly
\* when its rule's conversions succeed, and otherwise fails with the error
\* of the conversion: an array element type without a backend tag, a string
\* that is no timestamp, or a struct field that does not bind.
PairsBindAsWritten ==
    Bindings =>
        /\ ~RuleListed(param.type, value) =>
              /\ ~bound.ok
              /\ bound.error = "NotImplementedError"
              /\ DOMAIN bound = {"ok", "error", "msg"}
        /\ RuleListed(param.type, value) =>
              /\ bound.ok <=> Convertible(param.type, value)
              /\ ~bound.ok =>
                    CASE param.type.kind = "array" ->
                            bound.error = "UnsupportedBackendType"
                      [] param.type.kind \in {"timestamp", "date"} ->
                            bound.error = "ValueError"
                      [] param.type.kind = "struct" ->
                            bound.error \in {"NotImplementedError", "KeyError",
                                             "ValueError", "UnsupportedBackendType"}
                      [] OTHER -> FALSE

\* the documented normalizations: the UTC-qualified instant of a value, a
\* naive wall clock being read as UTC, and the pure date of that instant
EpochSecond(v) ==
    LET w == CASE v.cls = "str" -> TimestampStrings[v.str]
               [] v.cls = "date" ->
                    [day |-> v.day, second |-> 0, tzinfo |-> Naive]
               [] OTHER ->
                    [day |-> v.day, second |-> v.second,
                     tzinfo |-> v.tzinfo]
    IN  w.day * 86400 + w.second
        - (IF w.tzinfo.aware THEN w.tzinfo.utcoffset ELSE 0)

UtcInstant(v) ==
    PyDatetime(EpochSecond(v) \div 86400, EpochSecond(v) % 86400, UTC)

UtcDate(v) == IF v.cls = "date" THEN v ELSE PyDate(EpochSecond(v) \div 86400)

\* the date on the value's own wall clock
WallDate(v) ==
    CASE v.cls = "str" -> PyDate(TimestampStrings[v.str].day)
      [] OTHER -> PyDate(v.day)

TagOf(type) ==
    CASE type.kind = "string" -> "STRING"
      [] type.kind \in IntegerKinds -> "INT64"
      [] type.kind \in FloatingKinds -> "FLOAT64"
      [] type.kind = "boolean" -> "BOOL"
      [] type.kind = "timestamp" -> "TIMESTAMP"
      [] type.kind = "date" -> "DATE"

\* the parameter that reads back as v under the declared type; DateOf is
\* the normalization of a date placeholder's value
RECURSIVE ReadsBack(_, _, _, _, _)
ReadsBack(DateOf(_), b, name, type, v) ==
    CASE type.kind = "struct" ->
            /\ b.parameter = "struct"
            /\ b.name = name
            /\ Len(b.sub_params) = Len(v.keys)
            /\ \A i \in 1..Len(v.keys) :
                  ReadsBack(DateOf, b.sub_params[i], v.keys[i],
                            type.types[IndexOf(type.names, v.keys[i], 1)],
                            v.values[i])
      [] type.kind = "array" ->
            /\ b.parameter = "array"
            /\ b.name = name
            /\ b.array_type = TagOf(type.value_type)
            /\ b.values = v.items
      [] OTHER ->
            /\ b.parameter = "scalar"
            /\ b.name = name
            /\ b.type_ = TagOf(type)
            /\ b.value = (CASE type.kind = "timestamp" -> UtcInstant(v)
                            [] type.kind = "date" -> DateOf(v)
                            [] OTHER -> v)

\* C6: for every supported pair the bound parameter reads back as the
\* original value, a timestamp placeholder's as its UTC-qualified instant
\* and a date placeholder's as the pure date of that instant, under the
\* backend tag of the declared Type.
C6_RoundTrip ==
    (Bindings /\ bound.ok) =>
        ReadsBack(UtcDate, bound.value, param.name, param.type, value)

\* What the rules bind: as C6, but a date placeholder's value reads back as
\* the date on the value's own wall clock.
RoundTripAsWritten ==
    (Bindings /\ bound.ok) =>
        ReadsBack(WallDate, bound.value, param.name, param.type, value)

DenotesDate(v) ==
    \/ v.cls \in {"date", "datetime"}
    \/ v.cls = "str" /\ v.str \in DOMAIN TimestampStrings

\* C7: a date placeholder bound to a string, datetime or date ends in one
\* DATE parameter holding a pure date: for a string or datetime, the date of
\* the UTC-qualified instant that a timestamp placeholder would be bound
\* to; for a date, the value itself; after at most one re-dispatch.
C7_DateOfUtcInstant ==
    (Bindings /\ param.type.kind = "date" /\ DenotesDate(value)) =>
        /\ bound = Ok(ScalarQueryParameter(param.name, "DATE", UtcDate(value)))
        /\ dispatches <= 2

\* What the date rules bind: the date of the value's own wall clock, a
\* string or datetime after exactly one re-dispatch, a date after none.
DateBindingAsWritten ==
    (Bindings /\ param.type.kind = "date" /\ DenotesDate(value)) =>
        /\ bound = Ok(ScalarQueryParameter(param.name, "DATE", WallDate(value)))
        /\ dispatches = (IF value.cls = "date" THEN 1 ELSE 2)

(***************************************************************************)
(* Execution (C8).                                                         *)
(***************************************************************************)
InLoop == pc \in {"test", "reload", "sleep"}

\* a call returns only with every parameter bound, the query submitted
\* once, and the job done, on the backend and as the client saw it
ReturnsOnlyWhenDone ==
    pc = "returned" =>
        /\ job_done(jobState)
        /\ backendState = "DONE"
        /\ submitted = 1
        /\ queryBound.ok
        /\ Len(queryBound.value) = Len(queryParams)

\* the query is submitted after binding, and never again
SubmittedOnce ==
    /\ submitted <= 1
    /\ InLoop => (submitted = 1 /\ queryBound.ok)
    /\ pc = "raised" => (submitted = 0 /\ ~queryBound.ok)

\* the polling loop is left only by returning, and only once the job is
\* seen done: no timeout, no cancellation, no retry
LoopExit ==
    (InLoop /\ ~InLoop') => (pc' = "returned" /\ job_done(jobState))

\* C8: _execute and run_sync_query bind the parameters, submit once, then
\* poll; they return only when the job reports done, they do return once
\* the job is done, and nothing else ends the wait.
C8_SubmitThenPoll ==
    /\ [](ReturnsOnlyWhenDone /\ SubmittedOnce)
    /\ [][LoopExit]_vars
    /\ ((InLoop /\ backendState = "DONE") ~> (pc = "returned"))

C8_Witness ==
    /\ pc = "returned"
    /\ entry = "_execute"
    /\ polled
    /\ Len(queryParams) = 2

(***************************************************************************)
(* left and right (C10).                                                   *)
(***************************************************************************)
\* C10: left(s, n) is the same tree as substr(s, 0, n), and right(s, n) is
\* another node, of kind StrRight, with nchars = n.
C10_LeftIsSubstr ==
    /\ strCall.method = "left" =>
          /\ equals(strExpr, Substring(strCall.on, 0, strCall.nchars))
          /\ strExpr.op = "Substring"
          /\ strExpr.start = 0
          /\ strExpr.length = strCall.nchars
          /\ strExpr.arg = strCall.on
    /\ strCall.method = "right" =>
          /\ strExpr.op = "StrRight"
          /\ strExpr.nchars = strCall.nchars
          /\ strExpr.arg = strCall.on
          /\ ~equals(strExpr, Substring(strCall.on, 0, strCall.nchars))
    /\ strCall.method \in {"left", "right"} =>
          test_left_right(strCall.on, strCall.nchars)

C10_Witness ==
    /\ strCall.method = "left"
    /\ strCall.nchars = 2
    /\ strCall.on = StrRight(Column("g"), 1)

(***************************************************************************)
(* Group-by and having rendering (C11).                                    *)
(***************************************************************************)
GroupByRendered == groupByClause # Pending

NameList(groups) ==
    JoinStrings(", ", [i \in 1..Len(groups) |-> groups[i].name], 1)

HavingLine(hav) ==
    "HAVING " \o JoinStrings(" AND ", [i \in 1..Len(hav) |->
                                          _translate(hav[i])], 1)

\* what a non-empty group-by list renders: GROUP BY <names>, and the HAVING
\* line after it if the having list is non-empty
GroupByText ==
    PyStr("GROUP BY " \o NameList(group_by)
          \o (IF having # <<>> THEN "\n" \o HavingLine(having) ELSE ""))

\* C11: with a non-empty having list and an empty group-by list the clause
\* has no GROUP BY but still the line HAVING <p1> AND <p2> ...; with a
\* non-empty group-by list it is GROUP BY <names>, followed by the HAVING
\* line if the having list is non-empty.
C11_HavingWithoutGroupBy ==
    GroupByRendered =>
        /\ (group_by = <<>> /\ having # <<>>) =>
              groupByClause = PyStr(HavingLine(having))
        /\ group_by # <<>> => groupByClause = GroupByText

\* C11 as amended: with an empty group-by list nothing is rendered, the
\* having list being empty or not; with a non-empty group-by list the clause
\* is GROUP BY <names>, followed by the HAVING line if the having list is
\* non-empty.
C11_NothingWithoutGroupBy ==
    GroupByRendered =>
        /\ group_by = <<>> => groupByClause = PyNone
        /\ group_by # <<>> => groupByClause = GroupByText

C11_Witness ==
    /\ group_by = <<>>
    /\ Len(having) = 2
    /\ groupByClause = PyNone

====
